---- MODULE Spec2Model ----
(***************************************************************************)
(* Model of the business domain modeler (brianguertin/ooux): the zustand   *)
(* store of src/store/modelStore.ts wrapped by the zundo temporal          *)
(* middleware, and the handlers of the store-based BusinessDomainModeler   *)
(* component (keyboard shortcuts, drag end, import, new model).            *)
(*                                                                         *)
(* Ids: `entity-${Date.now()}` and `rel-${Date.now()}` are modelled by the *)
(* clock reading itself (a natural number); the two prefixes keep entity   *)
(* ids and relationship ids in separate name spaces.                       *)
(***************************************************************************)
EXTENDS Integers, Sequences, FiniteSets, TLC

VARIABLES
    model,                  \* ModelState.model: {entities, relationships}
    selectedEntity,         \* ModelState.selectedEntity: cached Entity or Null
    isCreatingRelationship, \* ModelState.isCreatingRelationship
    relationshipStart,      \* ModelState.relationshipStart: cached Entity or Null
    pastStates,             \* zundo temporal store: states to undo to
    futureStates,           \* zundo temporal store: states to redo to
    now,                    \* last reading of Date.now()
    pendingImport,          \* FileReader read in flight: file + closure of onload, or Null
    lastOp,                 \* the handler that ran last, and its outcome
    lastArg                 \* what the user gave it: the file picked, the answer
                            \* to the confirmation; Null for the other handlers

vars == <<model, selectedEntity, isCreatingRelationship, relationshipStart,
          pastStates, futureStates, now, pendingImport, lastOp, lastArg>>

----------------------------------------------------------------------------
(* Bounds of the model *)

MaxEntities == 2
MaxRelationships == 2
MaxClock == 3
MaxPast == 3
MaxPastDeep == 4
MaxPastImport == 2
MaxStates == 52
MaxPastLabels == 9
MaxItems == 1
MaxPastReorder == 5

(* zundo option `limit` *)
Limit == 50

----------------------------------------------------------------------------
(* Values *)

Null == [null |-> TRUE]

initialModel == [entities |-> <<>>, relationships |-> <<>>]

relationshipTypes == <<"relates to", "contains", "belongs to">>

Labels == {relationshipTypes[i] : i \in DOMAIN relationshipTypes}

Names == {"New Entity", "A"}

Min(a, b) == IF a < b THEN a ELSE b

Max(a, b) == IF a > b THEN a ELSE b

Range(s) == {s[i] : i \in DOMAIN s}

(* Array.prototype.findIndex on ids: first position (0-based) or -1 *)
findIndex(s, id) ==
    IF \E i \in DOMAIN s : s[i].id = id
    THEN (CHOOSE i \in DOMAIN s : s[i].id = id /\ \A j \in 1..(i - 1) : s[j].id # id) - 1
    ELSE 0 - 1

(* Array.prototype.find on ids: first element or Null *)
find(s, id) ==
    IF findIndex(s, id) >= 0 THEN s[findIndex(s, id) + 1] ELSE Null

(* {...a, ...b}: object spread, the fields of b override those of a *)
Merge(a, b) ==
    [k \in (DOMAIN a) \cup (DOMAIN b) |-> IF k \in DOMAIN b THEN b[k] ELSE a[k]]

----------------------------------------------------------------------------
(* The store and its temporal (zundo) wrapper.  A world w is the store      *)
(* state w.st together with the temporal store's w.past and w.future.       *)

StoreState ==
    [model |-> model, selectedEntity |-> selectedEntity,
     isCreatingRelationship |-> isCreatingRelationship,
     relationshipStart |-> relationshipStart]

World == [st |-> StoreState, past |-> pastStates, future |-> futureStates]

(* JSON.stringify of a store state: the data members in insertion order;   *)
(* the action members are functions and are left out                       *)
stringify(st) ==
    <<st.model, st.selectedEntity, st.isCreatingRelationship,
      st.relationshipStart, relationshipTypes>>

(* option `equality` *)
equality(a, b) == stringify(a) = stringify(b)

(* zundo _handleSet: drop the oldest state at the limit, push the past     *)
(* state, forget the future                                                *)
(* handleSet leaving the redo stack as it is *)
handleSet_keepsFuture(w, pastState) ==
    [w EXCEPT !.past = (IF Len(@) >= Limit THEN Tail(@) ELSE @) \o <<pastState>>]

handleSet(w, pastState) ==
    [w EXCEPT !.past = (IF Len(@) >= Limit THEN Tail(@) ELSE @) \o <<pastState>>,
              !.future = <<>>]

(* the `set` handed to the store creator: apply, then record the state     *)
(* before the call unless `equality` finds nothing changed                 *)
(* set applying the state without recording the one before *)
set_unrecorded(w, st) == [w EXCEPT !.st = st]

set(w, st) ==
    IF equality(w.st, st)
    THEN [w EXCEPT !.st = st]
    ELSE handleSet([w EXCEPT !.st = st], w.st)

(* undo putting the live state on the redo stack also when there is       *)
(* nothing to go back to                                                  *)
undo_alwaysPushes(w) ==
    IF Len(w.past) > 0
    THEN [st |-> w.past[Len(w.past)],
          past |-> SubSeq(w.past, 1, Len(w.past) - 1),
          future |-> w.future \o <<w.st>>]
    ELSE [w EXCEPT !.future = w.future \o <<w.st>>]

undo(w) ==
    IF Len(w.past) > 0
    THEN [st |-> w.past[Len(w.past)],
          past |-> SubSeq(w.past, 1, Len(w.past) - 1),
          future |-> w.future \o <<w.st>>]
    ELSE w

redo(w) ==
    IF Len(w.future) > 0
    THEN [st |-> w.future[Len(w.future)],
          past |-> w.past \o <<w.st>>,
          future |-> SubSeq(w.future, 1, Len(w.future) - 1)]
    ELSE w

clear(w) == [w EXCEPT !.past = <<>>, !.future = <<>>]

----------------------------------------------------------------------------
(* Store actions, as functions from world to world *)

setModel(w, m) ==
    set(w, [w.st EXCEPT !.model = m, !.selectedEntity = Null])

(* resetModel leaving the selection as it is *)
resetModel_keepsSelection(w) ==
    set(w, [w.st EXCEPT !.model = initialModel,
                        !.isCreatingRelationship = FALSE, !.relationshipStart = Null])

resetModel(w) ==
    set(w, [model |-> initialModel, selectedEntity |-> Null,
            isCreatingRelationship |-> FALSE, relationshipStart |-> Null])

newEntityAt(m, t) ==
    [id |-> t, name |-> "New Entity", order |-> Len(m.entities),
     attributes |-> <<>>, states |-> <<>>, actions |-> <<>>]

(* addEntity counting the new entity in its order *)
addEntity_orderFromOne(w, t) ==
    set(w, [w.st EXCEPT
              !.model = [@ EXCEPT !.entities =
                   Append(@, [newEntityAt(w.st.model, t) EXCEPT !.order = @ + 1])],
              !.selectedEntity = [newEntityAt(w.st.model, t) EXCEPT !.order = @ + 1]])

addEntity(w, t) ==
    set(w, [w.st EXCEPT
              !.model = [@ EXCEPT !.entities = Append(@, newEntityAt(w.st.model, t))],
              !.selectedEntity = newEntityAt(w.st.model, t)])

(* deleteEntity whose cascade looks at the from end only *)
deleteEntity_fromOnly(w, entityId) ==
    set(w, [w.st EXCEPT
              !.model = [entities |-> SelectSeq(@.entities, LAMBDA e : e.id # entityId),
                         relationships |-> SelectSeq(@.relationships,
                                LAMBDA r : r.from # entityId)],
              !.selectedEntity = Null])

deleteEntity(w, entityId) ==
    set(w, [w.st EXCEPT
              !.model = [entities |-> SelectSeq(@.entities, LAMBDA e : e.id # entityId),
                         relationships |-> SelectSeq(@.relationships,
                                LAMBDA r : r.from # entityId /\ r.to # entityId)],
              !.selectedEntity = Null])

(* updateEntity dropping the selection when the entity is not found *)
updateEntity_deselects(w, entityId, updates) ==
    LET updatedEntity == find(w.st.model.entities, entityId)
        newEntity == Merge(updatedEntity, updates)
    IN  IF updatedEntity = Null THEN set(w, [w.st EXCEPT !.selectedEntity = Null])
        ELSE set(w, [w.st EXCEPT
               !.model = [@ EXCEPT !.entities =
                     [i \in DOMAIN @ |-> IF @[i].id = entityId THEN newEntity ELSE @[i]]],
               !.selectedEntity =
                     IF @ # Null /\ @.id = entityId THEN newEntity ELSE @])

updateEntity(w, entityId, updates) ==
    LET updatedEntity == find(w.st.model.entities, entityId)
        newEntity == Merge(updatedEntity, updates)
    IN  IF updatedEntity = Null THEN w
        ELSE set(w, [w.st EXCEPT
               !.model = [@ EXCEPT !.entities =
                     [i \in DOMAIN @ |-> IF @[i].id = entityId THEN newEntity ELSE @[i]]],
               !.selectedEntity =
                     IF @ # Null /\ @.id = entityId THEN newEntity ELSE @])

addState(w, entityId) ==
    LET entity == find(w.st.model.entities, entityId)
    IN  IF entity = Null THEN w
        ELSE updateEntity(w, entityId, [states |-> Append(entity.states, "new_state")])

addAttribute(w, entityId) ==
    LET entity == find(w.st.model.entities, entityId)
    IN  IF entity = Null THEN w
        ELSE updateEntity(w, entityId,
                 [attributes |-> Append(entity.attributes,
                                        [name |-> "attribute", type |-> "string"])])

addAction(w, entityId) ==
    LET entity == find(w.st.model.entities, entityId)
    IN  IF entity = Null THEN w
        ELSE updateEntity(w, entityId, [actions |-> Append(entity.actions, "new_action")])

(* arr.filter((_, i) => i !== index), index counted from 0 *)
filterIndex(arr, index) ==
    IF index >= 0 /\ index < Len(arr)
    THEN [k \in 1 .. (Len(arr) - 1) |-> IF k <= index THEN arr[k] ELSE arr[k + 1]]
    ELSE arr

removeAttribute(w, entityId, index) ==
    LET entity == find(w.st.model.entities, entityId)
    IN  IF entity = Null THEN w
        ELSE updateEntity(w, entityId, [attributes |-> filterIndex(entity.attributes, index)])

removeState(w, entityId, index) ==
    LET entity == find(w.st.model.entities, entityId)
    IN  IF entity = Null THEN w
        ELSE updateEntity(w, entityId, [states |-> filterIndex(entity.states, index)])

removeAction(w, entityId, index) ==
    LET entity == find(w.st.model.entities, entityId)
    IN  IF entity = Null THEN w
        ELSE updateEntity(w, entityId, [actions |-> filterIndex(entity.actions, index)])

(* an array slot never assigned, which reads as undefined: in an array of  *)
(* attributes and in an array of strings                                   *)
Hole == [hole |-> TRUE]

HoleString == "<empty>"

(* arr[index]: undefined outside the array and in a hole *)
elementAt(arr, index) ==
    IF index >= 0 /\ index < Len(arr) THEN arr[index + 1] ELSE Hole

(* copy[index] = value on a copy of arr, index counted from 0: an index    *)
(* at or past the length grows the array, leaving holes in between; a      *)
(* negative index sets a property that is no element and that the next     *)
(* spread or JSON.stringify does not see                                   *)
assignIndex(arr, index, value, hole) ==
    IF index < 0 THEN arr
    ELSE IF index < Len(arr) THEN [arr EXCEPT ![index + 1] = value]
    ELSE [k \in 1 .. (index + 1) |->
             IF k <= Len(arr) THEN arr[k] ELSE IF k = index + 1 THEN value ELSE hole]

(* { ...element, [field]: value }: spreading undefined gives no members *)
spreadWith(element, field, value) ==
    IF element = Hole THEN (field :> value) ELSE Merge(element, (field :> value))

updateAttribute(w, entityId, index, field, value) ==
    LET entity == find(w.st.model.entities, entityId)
    IN  IF entity = Null THEN w
        ELSE updateEntity(w, entityId,
                 [attributes |-> assignIndex(entity.attributes, index,
                       spreadWith(elementAt(entity.attributes, index), field, value),
                       Hole)])

updateState(w, entityId, index, value) ==
    LET entity == find(w.st.model.entities, entityId)
    IN  IF entity = Null THEN w
        ELSE updateEntity(w, entityId, [states |-> assignIndex(entity.states, index, value, HoleString)])

updateAction(w, entityId, index, value) ==
    LET entity == find(w.st.model.entities, entityId)
    IN  IF entity = Null THEN w
        ELSE updateEntity(w, entityId, [actions |-> assignIndex(entity.actions, index, value, HoleString)])

setSelectedEntity(w, entity) ==
    set(w, [w.st EXCEPT !.selectedEntity = entity])

(* Array.prototype.splice(start, deleteCount): the clamped start position  *)
(* (0-based) in an array of length n                                       *)
spliceStart(n, start) ==
    IF start < 0 THEN Max(n + start, 0) ELSE Min(start, n)

(* the array left by splice(start, 1) *)
spliceRemove(s, start) ==
    LET k == spliceStart(Len(s), start)
    IN  SubSeq(s, 1, k) \o SubSeq(s, k + 2, Len(s))

(* the elements splice(start, 1) returns: at most one *)
spliceRemoved(s, start) ==
    LET k == spliceStart(Len(s), start)
    IN  SubSeq(s, k + 1, Min(k + 1, Len(s)))

(* the array left by splice(start, 0, item) *)
spliceInsert(s, start, item) ==
    LET k == spliceStart(Len(s), start)
    IN  SubSeq(s, 1, k) \o <<item>> \o SubSeq(s, k + 1, Len(s))

(* [movedEntity] = entities.splice(oldIndex, 1): undefined when nothing    *)
(* was removed; {...undefined, order} is then an object with order alone   *)
(* reorderEntities recording at the intermediate position as well: one   *)
(* set() after the splice, one after the renumbering                     *)
reorderEntities_perFrame(w, oldIndex, newIndex) ==
    LET entities0 == w.st.model.entities
        removed == spliceRemoved(entities0, oldIndex)
        movedEntity == IF removed = <<>> THEN << >> ELSE removed[1]
        entities1 == spliceInsert(spliceRemove(entities0, oldIndex), newIndex, movedEntity)
        reorderedEntities ==
            [i \in DOMAIN entities1 |-> Merge(entities1[i], [order |-> i - 1])]
        w1 == set(w, [w.st EXCEPT !.model = [@ EXCEPT !.entities = entities1]])
    IN  set(w1, [w1.st EXCEPT !.model = [@ EXCEPT !.entities = reorderedEntities]])

reorderEntities(w, oldIndex, newIndex) ==
    LET entities0 == w.st.model.entities
        removed == spliceRemoved(entities0, oldIndex)
        movedEntity == IF removed = <<>> THEN << >> ELSE removed[1]
        entities1 == spliceInsert(spliceRemove(entities0, oldIndex), newIndex, movedEntity)
        reorderedEntities ==
            [i \in DOMAIN entities1 |-> Merge(entities1[i], [order |-> i - 1])]
    IN  set(w, [w.st EXCEPT !.model = [@ EXCEPT !.entities = reorderedEntities]])

setIsCreatingRelationship(w, creating) ==
    set(w, [w.st EXCEPT !.isCreatingRelationship = creating])

setRelationshipStart(w, entity) ==
    set(w, [w.st EXCEPT !.relationshipStart = entity])

(* addRelationship with the two ends exchanged *)
addRelationship_reversed(w, from, to, label, t) ==
    set(w, [w.st EXCEPT !.model = [@ EXCEPT !.relationships =
              Append(@, [id |-> t, from |-> to, to |-> from, label |-> label])]])

addRelationship(w, from, to, label, t) ==
    set(w, [w.st EXCEPT !.model = [@ EXCEPT !.relationships =
              Append(@, [id |-> t, from |-> from, to |-> to, label |-> label])]])

(* updateRelationshipLabel flipping in one direction only *)
updateRelationshipLabel_oneWay(w, relId, newLabel) ==
    LET oldRel == find(w.st.model.relationships, relId)
        flip == oldRel.label = "contains" /\ newLabel = "belongs to"
        updatedRel == IF flip
                      THEN [oldRel EXCEPT !.label = newLabel,
                                          !.from = oldRel.to, !.to = oldRel.from]
                      ELSE [oldRel EXCEPT !.label = newLabel]
    IN  IF oldRel = Null THEN w
        ELSE set(w, [w.st EXCEPT !.model = [@ EXCEPT !.relationships =
               [i \in DOMAIN @ |-> IF @[i].id = relId THEN updatedRel ELSE @[i]]]])

updateRelationshipLabel(w, relId, newLabel) ==
    LET oldRel == find(w.st.model.relationships, relId)
        flip == \/ (oldRel.label = "contains" /\ newLabel = "belongs to")
                \/ (oldRel.label = "belongs to" /\ newLabel = "contains")
        updatedRel == IF flip
                      THEN [oldRel EXCEPT !.label = newLabel,
                                          !.from = oldRel.to, !.to = oldRel.from]
                      ELSE [oldRel EXCEPT !.label = newLabel]
    IN  IF oldRel = Null THEN w
        ELSE set(w, [w.st EXCEPT !.model = [@ EXCEPT !.relationships =
               [i \in DOMAIN @ |-> IF @[i].id = relId THEN updatedRel ELSE @[i]]]])

startRelationshipFromEntity(w, entity) ==
    set(w, [w.st EXCEPT !.isCreatingRelationship = TRUE,
                        !.relationshipStart = entity])

cancelRelationship(w) ==
    set(w, [w.st EXCEPT !.isCreatingRelationship = FALSE,
                        !.relationshipStart = Null])

(* handleEntityClick without the test that the entity is not the anchor *)
handleEntityClick_anyTarget(w, entity, t) ==
    IF w.st.isCreatingRelationship
    THEN IF w.st.relationshipStart # Null
         THEN cancelRelationship(
                  addRelationship(w, w.st.relationshipStart.id, entity.id, "relates to", t))
         ELSE cancelRelationship(w)
    ELSE setSelectedEntity(w, entity)

handleEntityClick(w, entity, t) ==
    IF w.st.isCreatingRelationship
    THEN IF w.st.relationshipStart # Null /\ w.st.relationshipStart.id # entity.id
         THEN cancelRelationship(
                  addRelationship(w, w.st.relationshipStart.id, entity.id, "relates to", t))
         ELSE cancelRelationship(w)
    ELSE setSelectedEntity(w, entity)

completeRelationship(w, entity, t) ==
    IF w.st.relationshipStart # Null /\ w.st.relationshipStart.id # entity.id
    THEN cancelRelationship(
             addRelationship(w, w.st.relationshipStart.id, entity.id, "relates to", t))
    ELSE cancelRelationship(w)

----------------------------------------------------------------------------
(* The component's handlers (store version of BusinessDomainModeler) *)

(* handleDragEnd: over is an entity id, or -1 when the drag ended over      *)
(* nothing (over = null, so over?.id is undefined)                          *)
handleDragEnd(w, activeId, overId) ==
    IF activeId # overId
    THEN reorderEntities(w, findIndex(w.st.model.entities, activeId),
                            findIndex(w.st.model.entities, overId))
    ELSE w

(* newModel: the confirmation is asked only for a model with entities *)
newModelAsks(w) == Len(w.st.model.entities) > 0

(* newModel that resets whatever the answer *)
newModel_unconfirmed(w, confirmed) ==
    clear(resetModel(w))

newModel(w, confirmed) ==
    IF newModelAsks(w) /\ ~confirmed
    THEN w
    ELSE clear(resetModel(w))

----------------------------------------------------------------------------
(* Import.  A picked file is the JSON value its text denotes, or text that  *)
(* JSON.parse rejects.                                                      *)

Unparsable == [t |-> "unparsable"]

Undefined == [t |-> "undefined"]

JNull == [t |-> "null"]

JNumber(n) == [t |-> "number", v |-> n]

JString(str) == [t |-> "string", v |-> str]

JArray(seq) == [t |-> "array", v |-> seq]

JObject(members) == [t |-> "object", v |-> members]

(* jsonData[name]: undefined for a missing member and for a primitive or    *)
(* an array; the caller handles null, on which the access throws            *)
member(json, name) ==
    IF json.t = "object" /\ name \in DOMAIN json.v THEN json.v[name] ELSE Undefined

(* !value is false *)
truthy(json) ==
    /\ json.t \notin {"undefined", "null"}
    /\ ~(json.t = "string" /\ json.v = "")
    /\ ~(json.t = "number" /\ json.v = 0)

isArray(json) == json.t = "array"

(* the validation with Array.isArray left out for relationships *)
validate_relationshipsPresent(file) ==
    IF file = Unparsable THEN "SyntaxError"
    ELSE IF file = JNull THEN "TypeError"
    ELSE IF ~truthy(member(file, "entities")) \/ ~isArray(member(file, "entities"))
    THEN "Invalid file format: missing or invalid entities array"
    ELSE IF ~truthy(member(file, "relationships"))
    THEN "Invalid file format: missing or invalid relationships array"
    ELSE "ok"

(* the try block of reader.onload up to the confirmation: "ok" or the       *)
(* error caught                                                             *)
validate(file) ==
    IF file = Unparsable THEN "SyntaxError"
    ELSE IF file = JNull THEN "TypeError"
    ELSE IF ~truthy(member(file, "entities")) \/ ~isArray(member(file, "entities"))
    THEN "Invalid file format: missing or invalid entities array"
    ELSE IF ~truthy(member(file, "relationships"))
            \/ ~isArray(member(file, "relationships"))
    THEN "Invalid file format: missing or invalid relationships array"
    ELSE "ok"

importedModel(file) ==
    [entities |-> member(file, "entities").v,
     relationships |-> member(file, "relationships").v]

(* reader.onload: closureModel is the model of the render whose             *)
(* handleFileImport started the read                                        *)
importAsks(file, closureModel) ==
    /\ validate(file) = "ok"
    /\ (Len(closureModel.entities) > 0 \/ Len(closureModel.relationships) > 0)

importOutcome(file, closureModel, confirmed) ==
    IF validate(file) # "ok" THEN "importFailed"
    ELSE IF importAsks(file, closureModel) /\ ~confirmed
    THEN "importDeclined"
    ELSE "importDone"

(* reader.onload without the call of clear() *)
onload_keepsHistory(w, file, closureModel, confirmed) ==
    IF importOutcome(file, closureModel, confirmed) = "importDone"
    THEN setSelectedEntity(setModel(w, importedModel(file)), Null)
    ELSE w

onload(w, file, closureModel, confirmed) ==
    IF importOutcome(file, closureModel, confirmed) = "importDone"
    THEN clear(setSelectedEntity(setModel(w, importedModel(file)), Null))
    ELSE w

(* files a user may pick *)
FileEntity(id, order) ==
    [id |-> id, name |-> "A", order |-> order,
     attributes |-> <<[name |-> "attribute", type |-> "string"]>>,
     states |-> <<"new_state">>, actions |-> <<"new_action">>]

FileDocument ==
    [entities |-> JArray(<<FileEntity(0, 0), FileEntity(1, 1)>>),
     relationships |-> JArray(<<[id |-> 0, from |-> 0, to |-> 1, label |-> "contains"]>>)]

ValidFiles ==
    {JObject(FileDocument),
     JObject([entities |-> JArray(<<>>), relationships |-> JArray(<<>>)])}

InvalidFiles ==
    {Unparsable, JNull, JNumber(5), JString("x"), JArray(<<>>),
     JObject([relationships |-> JArray(<<>>)]),
     JObject([entities |-> JArray(<<>>)]),
     JObject([entities |-> JArray(<<>>), relationships |-> JString("x")]),
     JObject([entities |-> JString("x"), relationships |-> JArray(<<>>)]),
     JObject([entities |-> JNull, relationships |-> JArray(<<>>)]),
     JObject([entities |-> JArray(<<>>), relationships |-> JObject([length |-> JNumber(0)])])}

(* Date.now() at the first operation of a session: the entities of a file  *)
(* were created at the earlier readings 0, 1, ...                           *)
StartClock == Len(FileDocument.entities.v)

----------------------------------------------------------------------------
(* State transitions *)

Init ==
    /\ model = initialModel
    /\ selectedEntity = Null
    /\ isCreatingRelationship = FALSE
    /\ relationshipStart = Null
    /\ pastStates = <<>>
    /\ futureStates = <<>>
    /\ now = StartClock
    /\ pendingImport = Null
    /\ lastOp = "init"
    /\ lastArg = Null

(* the store and the temporal store after a handler ran *)
CommitArg(w, op, arg) ==
    /\ model' = w.st.model
    /\ selectedEntity' = w.st.selectedEntity
    /\ isCreatingRelationship' = w.st.isCreatingRelationship
    /\ relationshipStart' = w.st.relationshipStart
    /\ pastStates' = w.past
    /\ futureStates' = w.future
    /\ lastOp' = op
    /\ lastArg' = arg

Commit(w, op) == CommitArg(w, op, Null)

(* what the user answered to window.confirm, when it was shown *)
Answer(asked, confirmed) ==
    IF ~asked THEN "notAsked" ELSE IF confirmed THEN "yes" ELSE "no"

(* bound of the model: handlers that record run while the undo stack is    *)
(* short                                                                    *)
Room == Len(pastStates) < MaxPast

DeepRoom == Len(pastStates) < MaxPastDeep

(* bound of the model where entities are deleted, added and then dragged *)
ReorderRoom == Len(pastStates) < MaxPastReorder

(* nothing is recorded yet: the first edit of a session *)
Fresh == pastStates = <<>>

(* the history holds selection and gesture changes only: the gesture is    *)
(* made on a document that no recorded step has changed                    *)
Untouched == \A k \in DOMAIN pastStates : pastStates[k].model = model

(* bound of the model where files are imported at any time *)
ShortPast == Len(pastStates) < MaxPastImport

LabelRoom == Len(pastStates) < MaxPastLabels

(* bound of the model: the items an entity gets by the add functions *)
ItemRoom ==
    \A e \in Range(model.entities) :
        Len(e.attributes) + Len(e.states) + Len(e.actions) < MaxItems

(* bound of the model: the number of entities *)
EntityRoom == Len(model.entities) < MaxEntities

(* one entity more than an imported file brings *)
ThirdEntityRoom == Len(model.entities) <= MaxEntities

(* bound of the model: a file is opened as the first operation *)
FirstOp == lastOp = "init"

(* Date.now() does not go backwards *)
ClockReadings == now .. Min(now + 1, MaxClock)

AbsentId == MaxClock + 1

EntityIds == {model.entities[i].id : i \in DOMAIN model.entities}

RelationshipIds == {model.relationships[i].id : i \in DOMAIN model.relationships}

AddEntity ==
    /\ \E t \in ClockReadings :
          /\ Commit(addEntity(World, t), "addEntity")
          /\ now' = t
    /\ UNCHANGED pendingImport

DeleteEntity ==
    /\ \E entityId \in EntityIds \cup {AbsentId} :
          CommitArg(deleteEntity(World, entityId), "deleteEntity", [entityId |-> entityId])
    /\ UNCHANGED <<now, pendingImport>>

UpdateEntity ==
    /\ \E entityId \in EntityIds \cup {AbsentId}, name \in Names :
          CommitArg(updateEntity(World, entityId, [name |-> name]), "updateEntity",
                    [entityId |-> entityId])
    /\ UNCHANGED <<now, pendingImport>>

(* the sidebar's "+ Add State" on the selected entity *)
HandleAddState ==
    /\ selectedEntity # Null
    /\ \A e \in Range(model.entities) : Len(e.states) < MaxStates
    /\ Commit(addState(World, selectedEntity.id), "handleAddState")
    /\ UNCHANGED <<now, pendingImport>>

(* the store's attribute, state and action functions, called with any      *)
(* entity id and any index                                                 *)
Indexes == (0 - 1) .. MaxItems

FieldNames == {"name", "type"}

Values == {"v"}

AddAttribute ==
    /\ \E entityId \in EntityIds \cup {AbsentId} :
          CommitArg(addAttribute(World, entityId), "addAttribute", [entityId |-> entityId])
    /\ UNCHANGED <<now, pendingImport>>

AddState ==
    /\ \E entityId \in EntityIds \cup {AbsentId} :
          CommitArg(addState(World, entityId), "addState", [entityId |-> entityId])
    /\ UNCHANGED <<now, pendingImport>>

AddAction ==
    /\ \E entityId \in EntityIds \cup {AbsentId} :
          CommitArg(addAction(World, entityId), "addAction", [entityId |-> entityId])
    /\ UNCHANGED <<now, pendingImport>>

RemoveAttribute ==
    /\ \E entityId \in EntityIds \cup {AbsentId}, index \in Indexes :
          CommitArg(removeAttribute(World, entityId, index), "removeAttribute",
                    [entityId |-> entityId, index |-> index])
    /\ UNCHANGED <<now, pendingImport>>

RemoveState ==
    /\ \E entityId \in EntityIds \cup {AbsentId}, index \in Indexes :
          CommitArg(removeState(World, entityId, index), "removeState",
                    [entityId |-> entityId, index |-> index])
    /\ UNCHANGED <<now, pendingImport>>

RemoveAction ==
    /\ \E entityId \in EntityIds \cup {AbsentId}, index \in Indexes :
          CommitArg(removeAction(World, entityId, index), "removeAction",
                    [entityId |-> entityId, index |-> index])
    /\ UNCHANGED <<now, pendingImport>>

UpdateAttribute ==
    /\ \E entityId \in EntityIds \cup {AbsentId}, index \in Indexes,
          field \in FieldNames, value \in Values :
          CommitArg(updateAttribute(World, entityId, index, field, value), "updateAttribute",
                    [entityId |-> entityId, index |-> index])
    /\ UNCHANGED <<now, pendingImport>>

UpdateState ==
    /\ \E entityId \in EntityIds \cup {AbsentId}, index \in Indexes, value \in Values :
          CommitArg(updateState(World, entityId, index, value), "updateState",
                    [entityId |-> entityId, index |-> index])
    /\ UNCHANGED <<now, pendingImport>>

UpdateAction ==
    /\ \E entityId \in EntityIds \cup {AbsentId}, index \in Indexes, value \in Values :
          CommitArg(updateAction(World, entityId, index, value), "updateAction",
                    [entityId |-> entityId, index |-> index])
    /\ UNCHANGED <<now, pendingImport>>

SetSelectedEntity ==
    /\ \E entity \in Range(model.entities) \cup {Null} :
          Commit(setSelectedEntity(World, entity), "setSelectedEntity")
    /\ UNCHANGED <<now, pendingImport>>

HandleDragEnd ==
    /\ \E activeId \in EntityIds, overId \in EntityIds \cup {0 - 1} :
          CommitArg(handleDragEnd(World, activeId, overId),
                    IF activeId # overId THEN "reorderEntities" ELSE "handleDragEnd",
                    IF activeId # overId
                    THEN [oldIndex |-> findIndex(model.entities, activeId),
                          newIndex |-> findIndex(model.entities, overId)]
                    ELSE Null)
    /\ UNCHANGED <<now, pendingImport>>

SetIsCreatingRelationship ==
    /\ \E creating \in BOOLEAN :
          Commit(setIsCreatingRelationship(World, creating), "setIsCreatingRelationship")
    /\ UNCHANGED <<now, pendingImport>>

SetRelationshipStart ==
    /\ \E entity \in Range(model.entities) \cup {Null} :
          Commit(setRelationshipStart(World, entity), "setRelationshipStart")
    /\ UNCHANGED <<now, pendingImport>>

UpdateRelationshipLabel ==
    /\ \E relId \in RelationshipIds \cup {AbsentId}, newLabel \in Labels :
          CommitArg(updateRelationshipLabel(World, relId, newLabel),
                    "updateRelationshipLabel", [relId |-> relId, newLabel |-> newLabel])
    /\ UNCHANGED <<now, pendingImport>>

(* RightSidebar "+ Add": the anchor is the selected entity *)
StartRelationshipFromEntity ==
    /\ selectedEntity # Null
    /\ Commit(startRelationshipFromEntity(World, selectedEntity),
              "startRelationshipFromEntity")
    /\ UNCHANGED <<now, pendingImport>>

CancelRelationship ==
    /\ Commit(cancelRelationship(World), "cancelRelationship")
    /\ UNCHANGED <<now, pendingImport>>

(* a click on a rendered entity card; the clock is read when a             *)
(* relationship is created                                                  *)
HandleEntityClick ==
    /\ \E entity \in Range(model.entities), t \in ClockReadings :
          /\ Len(handleEntityClick(World, entity, t).st.model.relationships)
                 <= MaxRelationships
          /\ CommitArg(handleEntityClick(World, entity, t), "handleEntityClick",
                       [entityId |-> entity.id])
          /\ now' = t
          /\ t # now => handleEntityClick(World, entity, t).st.model # model
    /\ UNCHANGED pendingImport

CompleteRelationship ==
    /\ \E entity \in Range(model.entities), t \in ClockReadings :
          /\ Len(completeRelationship(World, entity, t).st.model.relationships)
                 <= MaxRelationships
          /\ CommitArg(completeRelationship(World, entity, t), "completeRelationship",
                       [entityId |-> entity.id])
          /\ now' = t
          /\ t # now => completeRelationship(World, entity, t).st.model # model
    /\ UNCHANGED pendingImport

Undo ==
    /\ Commit(undo(World), "undo")
    /\ UNCHANGED <<now, pendingImport>>

Redo ==
    /\ Commit(redo(World), "redo")
    /\ UNCHANGED <<now, pendingImport>>

NewModel ==
    /\ \E confirmed \in BOOLEAN :
          CommitArg(newModel(World, confirmed),
                    IF newModelAsks(World) /\ ~confirmed
                    THEN "newModelDeclined" ELSE "newModel",
                    [answer |-> Answer(newModelAsks(World), confirmed)])
    /\ UNCHANGED <<now, pendingImport>>

(* the file input's change event: the read starts *)
HandleFileImport ==
    /\ pendingImport = Null
    /\ \E file \in ValidFiles \cup InvalidFiles :
          pendingImport' = [file |-> file, closureModel |-> model]
    /\ lastOp' = "handleFileImport"
    /\ lastArg' = Null
    /\ UNCHANGED <<model, selectedEntity, isCreatingRelationship, relationshipStart,
                   pastStates, futureStates, now>>

(* the read completes *)
Onload ==
    /\ pendingImport # Null
    /\ \E confirmed \in BOOLEAN :
          CommitArg(onload(World, pendingImport.file, pendingImport.closureModel, confirmed),
                    importOutcome(pendingImport.file, pendingImport.closureModel, confirmed),
                    [file |-> pendingImport.file,
                     answer |-> Answer(importAsks(pendingImport.file,
                                                  pendingImport.closureModel), confirmed)])
    /\ pendingImport' = Null
    /\ UNCHANGED now

(* the read fails: reader.onerror only alerts *)
Onerror ==
    /\ pendingImport # Null
    /\ pendingImport' = Null
    /\ lastOp' = "onerror"
    /\ lastArg' = Null
    /\ UNCHANGED <<model, selectedEntity, isCreatingRelationship, relationshipStart,
                   pastStates, futureStates, now>>

(* a file picked and read with no other event in between *)
ImportFile ==
    /\ pendingImport = Null
    /\ \E file \in ValidFiles \cup InvalidFiles, confirmed \in BOOLEAN :
          CommitArg(onload(World, file, model, confirmed),
                    importOutcome(file, model, confirmed),
                    [file |-> file, answer |-> Answer(importAsks(file, model), confirmed)])
    /\ UNCHANGED <<now, pendingImport>>

(* The relationship gesture with the document operations around it *)
Next ==
    \/ (FirstOp /\ ImportFile)
    \/ (Room /\ EntityRoom /\ AddEntity)
    \/ (Room /\ DeleteEntity)
    \/ (Room /\ HandleEntityClick)
    \/ (Room /\ StartRelationshipFromEntity)
    \/ (Room /\ CancelRelationship)
    \/ (Room /\ UpdateRelationshipLabel)
    \/ Undo
    \/ Redo

Spec == Init /\ [][Next]_vars

(* The same operations with a longer undo stack *)
NextDeep ==
    \/ (FirstOp /\ ImportFile)
    \/ (DeepRoom /\ EntityRoom /\ AddEntity)
    \/ (DeepRoom /\ DeleteEntity)
    \/ (DeepRoom /\ HandleEntityClick)
    \/ (DeepRoom /\ StartRelationshipFromEntity)
    \/ (DeepRoom /\ CancelRelationship)
    \/ (DeepRoom /\ UpdateRelationshipLabel)
    \/ Undo
    \/ Redo

SpecDeep == Init /\ [][NextDeep]_vars

(* Entities created, deleted, renamed and reordered, from the empty model *)
NextOrder ==
    \/ (Room /\ EntityRoom /\ AddEntity)
    \/ (Room /\ DeleteEntity)
    \/ (Room /\ UpdateEntity)
    \/ (Room /\ HandleDragEnd)
    \/ Undo
    \/ Redo

SpecOrder == Init /\ [][NextOrder]_vars

(* Files imported and models started anew at any time *)
NextImport ==
    \/ HandleFileImport
    \/ Onload
    \/ Onerror
    \/ NewModel
    \/ (ShortPast /\ EntityRoom /\ AddEntity)
    \/ (ShortPast /\ StartRelationshipFromEntity)
    \/ Undo
    \/ Redo

SpecImport == Init /\ [][NextImport]_vars

(* The gesture driven through every store action that touches it *)
NextGesture ==
    \/ (FirstOp /\ ImportFile)
    \/ (Room /\ EntityRoom /\ AddEntity)
    \/ (Room /\ SetIsCreatingRelationship)
    \/ (Room /\ SetRelationshipStart)
    \/ (Room /\ StartRelationshipFromEntity)
    \/ (Room /\ CancelRelationship)
    \/ (Room /\ HandleEntityClick)
    \/ (Room /\ CompleteRelationship)
    \/ Undo
    \/ Redo

SpecGesture == Init /\ [][NextGesture]_vars

(* Entities added to an empty or an imported model, and dragged *)
NextCreate ==
    \/ (FirstOp /\ ImportFile)
    \/ (Room /\ ThirdEntityRoom /\ AddEntity)
    \/ (Room /\ HandleDragEnd)
    \/ Undo
    \/ Redo

SpecCreate == Init /\ [][NextCreate]_vars

(* The attributes, states and actions of one entity *)
NextItems ==
    \/ (model.entities = <<>> /\ AddEntity)
    \/ (ShortPast /\ UpdateEntity)
    \/ (ShortPast /\ UpdateRelationshipLabel)
    \/ (ShortPast /\ ItemRoom /\ AddAttribute)
    \/ (ShortPast /\ ItemRoom /\ AddState)
    \/ (ShortPast /\ ItemRoom /\ AddAction)
    \/ (ShortPast /\ RemoveAttribute)
    \/ (ShortPast /\ RemoveState)
    \/ (ShortPast /\ RemoveAction)
    \/ (ShortPast /\ UpdateAttribute)
    \/ (ShortPast /\ UpdateState)
    \/ (ShortPast /\ UpdateAction)
    \/ Undo
    \/ Redo

SpecItems == Init /\ [][NextItems]_vars

(* Relationships drawn between two new entities and relabelled *)
NextLabels ==
    \/ (LabelRoom /\ EntityRoom /\ AddEntity)
    \/ (LabelRoom /\ StartRelationshipFromEntity)
    \/ (LabelRoom /\ HandleEntityClick)
    \/ (LabelRoom /\ UpdateRelationshipLabel)

SpecLabels == Init /\ [][NextLabels]_vars

(* One entity edited often enough to fill the undo stack *)
NextHistory ==
    \/ (model.entities = <<>> /\ AddEntity)
    \/ HandleAddState
    \/ Undo
    \/ Redo

SpecHistory == Init /\ [][NextHistory]_vars

----------------------------------------------------------------------------
(* Properties *)

(* C1: referential integrity: every relationship's from and to are ids of   *)
(* entities present in the model.                                           *)
C1_ReferentialIntegrity ==
    \A i \in DOMAIN model.relationships :
        /\ model.relationships[i].from \in EntityIds
        /\ model.relationships[i].to \in EntityIds

(* the order values of the entities are exactly 0..N-1 *)
DenselyOrdered(entities) ==
    \A k \in 0 .. (Len(entities) - 1) :
        Cardinality({i \in DOMAIN entities : entities[i].order = k}) = 1

(* C2: order density: after any addEntity, deleteEntity or reorderEntities, *)
(* in any sequence from the empty model, the order values are 0..N-1.       *)
C2_OrderDensity ==
    lastOp \in {"addEntity", "deleteEntity", "reorderEntities"}
        => DenselyOrdered(model.entities)

(* C7: id uniqueness: entity ids are pairwise distinct and relationship ids *)
(* are pairwise distinct, the clock being free to stand still.              *)
C7_IdsDistinct ==
    /\ \A i, j \in DOMAIN model.entities :
          model.entities[i].id = model.entities[j].id => i = j
    /\ \A i, j \in DOMAIN model.relationships :
          model.relationships[i].id = model.relationships[j].id => i = j

(* the handlers that edit the document *)
MutationOps ==
    {"addEntity", "deleteEntity", "updateEntity", "reorderEntities",
     "updateRelationshipLabel", "handleEntityClick", "completeRelationship"}

(* C3: undo/redo inverse law: right after a mutation that turned document D *)
(* into a different D', undo() restores D and redo() after it restores D'.  *)
C3_UndoRedoInverse ==
    [][(lastOp' \in MutationOps /\ model' # model)
          => /\ undo(World').st.model = model
             /\ redo(undo(World')).st.model = model']_vars

Inverse(label) == IF label = "contains" THEN "belongs to" ELSE "contains"

Swapped(rel) == [rel EXCEPT !.from = rel.to, !.to = rel.from]

(* C5: label-flip round trip: updateRelationshipLabel from "contains" to    *)
(* "belongs to" (or the other way round) swaps from/to and sets the label,  *)
(* and the update back restores the original from, to and label.            *)
C5_LabelFlipRoundTrip ==
    \A i \in DOMAIN model.relationships :
        LET old == model.relationships[i]
            w1 == updateRelationshipLabel(World, old.id, Inverse(old.label))
            w2 == updateRelationshipLabel(w1, old.id, old.label)
        IN  old.label \in {"contains", "belongs to"}
              => /\ w1.st.model.relationships[i]
                       = [Swapped(old) EXCEPT !.label = Inverse(old.label)]
                 /\ w2.st.model.relationships[i] = old

(* a round trip made by two updateRelationshipLabel calls in a row *)
C5_Witness ==
    /\ lastOp = "updateRelationshipLabel"
    /\ Len(pastStates) >= 2
    /\ LET before == pastStates[Len(pastStates) - 1].model.relationships
           between == pastStates[Len(pastStates)].model.relationships
       IN  /\ Len(before) = 1
           /\ before[1].label = "contains"
           /\ between = <<[Swapped(before[1]) EXCEPT !.label = "belongs to"]>>
           /\ model.relationships = before

(* C6: self-loop rejection: no relationship has from = to, and a click      *)
(* that adds a relationship adds one from the anchor to another id.         *)
C6_NoSelfLoop ==
    /\ [](\A i \in DOMAIN model.relationships :
             model.relationships[i].from # model.relationships[i].to)
    /\ [][(lastOp' \in {"handleEntityClick", "completeRelationship"}
             /\ model'.relationships # model.relationships)
           => /\ relationshipStart # Null
              /\ \E to \in EntityIds \ {relationshipStart.id}, t \in ClockReadings :
                    model'.relationships = Append(model.relationships,
                        [id |-> t, from |-> relationshipStart.id, to |-> to,
                         label |-> "relates to"])]_vars

(* the anchor was clicked again: the armed gesture ended, nothing was added *)
C6_Witness ==
    /\ lastOp = "handleEntityClick"
    /\ Len(pastStates) > 0
    /\ LET armed == pastStates[Len(pastStates)]
       IN  /\ armed.isCreatingRelationship
           /\ armed.relationshipStart # Null
           /\ \E i \in DOMAIN armed.model.entities :
                 armed.model.entities[i].id = armed.relationshipStart.id
           /\ Len(armed.model.entities) > 1
           /\ \A i, j \in DOMAIN armed.model.entities :
                 armed.model.entities[i].id = armed.model.entities[j].id => i = j
           /\ model = armed.model
           /\ ~isCreatingRelationship

ImportOps == {"importFailed", "importDeclined", "importDone"}

(* a file that is malformed JSON, is not an object, or has entities or      *)
(* relationships missing or not an array                                    *)
Malformed(file) ==
    \/ file.t # "object"
    \/ "entities" \notin DOMAIN file.v
    \/ "relationships" \notin DOMAIN file.v
    \/ file.v.entities.t # "array"
    \/ file.v.relationships.t # "array"

NonEmpty(m) == Len(m.entities) > 0 \/ Len(m.relationships) > 0

(* C8: import rejection: importing a malformed file fails and leaves the    *)
(* document, the selection and the history as they were.                    *)
C8_ImportRejection ==
    [][(lastOp' \in ImportOps /\ Malformed(lastArg'.file))
          => /\ lastOp' = "importFailed"
             /\ UNCHANGED <<model, selectedEntity, pastStates, futureStates>>]_vars

(* the file {"entities":[],"relationships":"x"} was rejected while a         *)
(* document with a selection and a history was open                         *)
C8_Witness ==
    /\ lastOp = "importFailed"
    /\ lastArg.file = JObject([entities |-> JArray(<<>>), relationships |-> JString("x")])
    /\ NonEmpty(model)
    /\ selectedEntity # Null
    /\ pastStates # <<>>

(* C9: import success: the document is the imported one, the selection is   *)
(* none and the history is reset: undo() and redo() right after the import  *)
(* do not change the document.                                              *)
C9_ImportSuccess ==
    [][/\ lastOp' = "importDone"
           => /\ model' = [entities |-> lastArg'.file.v.entities.v,
                           relationships |-> lastArg'.file.v.relationships.v]
              /\ selectedEntity' = Null
              /\ pastStates' = <<>> /\ futureStates' = <<>>
              /\ undo(World').st.model = model'
              /\ redo(World').st.model = model'
       /\ (lastOp = "importDone" /\ lastOp' \in {"undo", "redo"})
           => model' = model]_vars

(* a file with entities replaced a session that had a gesture under way *)
C9_Witness ==
    /\ lastOp = "importDone"
    /\ Len(model.entities) = 2
    /\ isCreatingRelationship
    /\ relationshipStart # Null

(* C10: confirmation declined: with a non-empty document, an import or a    *)
(* new model whose confirmation is declined changes nothing.                *)
C10_ConfirmationDeclined ==
    [][(/\ NonEmpty(model)
        /\ lastOp' \in ImportOps \cup {"newModel", "newModelDeclined"}
        /\ lastArg'.answer = "no")
          => UNCHANGED <<model, selectedEntity, isCreatingRelationship,
                         relationshipStart, pastStates, futureStates>>]_vars

(* an import was declined while a gesture was under way *)
C10_Witness ==
    /\ lastOp = "importDeclined"
    /\ lastArg.answer = "no"
    /\ NonEmpty(model)
    /\ selectedEntity # Null
    /\ isCreatingRelationship
    /\ pastStates # <<>>

(* C4: history bound: once more than 50 mutations are recorded, the history  *)
(* holds only the 50 most recent snapshots, the live document among them,   *)
(* so no number of undo() yields a document older than the 50th from last.  *)
(* A document of SpecHistory is stamped by the number of mutations that     *)
(* built it.                                                                *)
Stamp(st) ==
    IF st.model.entities = <<>> THEN 0
    ELSE 1 + Len(st.model.entities[1].states)

Newest == IF futureStates # <<>> THEN futureStates[1] ELSE StoreState

Snapshots == Range(pastStates) \cup {StoreState} \cup Range(futureStates)

C4_HistoryBound ==
    Stamp(Newest) > Limit
        => \A snapshot \in Snapshots : Stamp(Newest) - Stamp(snapshot) < Limit

(* the k-th smallest member of a set of positions *)
Nth(positions, k) ==
    CHOOSE p \in positions : Cardinality({q \in positions : q < p}) = k - 1

(* new is old restricted to the positions kept, in the same order *)
KeepsExactly(old, new, kept) ==
    /\ Len(new) = Cardinality(kept)
    /\ \A k \in DOMAIN new : new[k] = old[Nth(kept, k)]

Relabelled(rel, newLabel) ==
    IF {rel.label, newLabel} = {"contains", "belongs to"}
    THEN [id |-> rel.id, from |-> rel.to, to |-> rel.from, label |-> newLabel]
    ELSE [id |-> rel.id, from |-> rel.from, to |-> rel.to, label |-> newLabel]

(* C12: direction-flip rule: updateRelationshipLabel swaps from/to iff old  *)
(* and new label are "contains" and "belongs to"; otherwise only the label  *)
(* changes; id and position never change, other relationships are kept.     *)
C12_DirectionFlipRule ==
    [][lastOp' = "updateRelationshipLabel"
         => LET old == model.relationships
                new == model'.relationships
            IN  /\ Len(new) = Len(old)
                /\ \A i \in DOMAIN old :
                      new[i] = IF old[i].id = lastArg'.relId
                               THEN Relabelled(old[i], lastArg'.newLabel)
                               ELSE old[i]]_vars

(* C13: createEntity: addEntity appends one entity with order = number of   *)
(* entities before the call, name "New Entity" and empty attributes, states *)
(* and actions, keeps the existing entities and relationships and selects   *)
(* the new entity; two calls from the empty document give orders 0, 1 and   *)
(* reorderEntities(0, 1) then puts E1 at order 0 and E0 at order 1.         *)
C13_CreateEntity ==
    [][/\ lastOp' = "addEntity"
           => \E id \in 0 .. MaxClock :
                 LET created == [id |-> id, name |-> "New Entity",
                                 order |-> Len(model.entities),
                                 attributes |-> <<>>, states |-> <<>>, actions |-> <<>>]
                 IN  /\ model'.entities = model.entities \o <<created>>
                     /\ model'.relationships = model.relationships
                     /\ selectedEntity' = created
       /\ (/\ lastOp' = "reorderEntities"
           /\ lastArg' = [oldIndex |-> 0, newIndex |-> 1]
           /\ Len(model.entities) = 2)
           => model'.entities = <<[model.entities[2] EXCEPT !.order = 0],
                                  [model.entities[1] EXCEPT !.order = 1]>>]_vars

(* two entities created from the empty document, with orders 0 and 1, were  *)
(* swapped by reorderEntities(0, 1)                                         *)
C13_Witness ==
    /\ lastOp = "reorderEntities"
    /\ lastArg = [oldIndex |-> 0, newIndex |-> 1]
    /\ Len(pastStates) = 3
    /\ pastStates[1].model = initialModel
    /\ Len(pastStates[3].model.entities) = 2
    /\ pastStates[3].model.entities[1].order = 0
    /\ pastStates[3].model.entities[2].order = 1
    /\ model.entities = <<[pastStates[3].model.entities[2] EXCEPT !.order = 0],
                          [pastStates[3].model.entities[1] EXCEPT !.order = 1]>>

(* an entity was added to a model that has relationships *)
C13_WitnessRelationships ==
    /\ lastOp = "addEntity"
    /\ model.relationships # <<>>
    /\ Len(model.entities) = 3

(* Removing items: two entities, reordered by dragging, items added and *)
(* removed at any index.                                                 *)
NextRemove ==
    \/ (Room /\ EntityRoom /\ AddEntity)
    \/ (Room /\ HandleDragEnd)
    \/ (Room /\ ItemRoom /\ AddAttribute)
    \/ (Room /\ ItemRoom /\ AddState)
    \/ (Room /\ ItemRoom /\ AddAction)
    \/ (DeepRoom /\ RemoveAttribute)
    \/ (DeepRoom /\ RemoveState)
    \/ (DeepRoom /\ RemoveAction)
    \/ Undo
    \/ Redo

SpecRemove == Init /\ [][NextRemove]_vars

(* Selecting: entities created, clicked, deleted and renamed,           *)
(* files imported and models started anew at any time                    *)
NextSelection ==
    \/ ImportFile
    \/ NewModel
    \/ (ShortPast /\ EntityRoom /\ AddEntity)
    \/ (ShortPast /\ DeleteEntity)
    \/ (ShortPast /\ HandleEntityClick)
    \/ (ShortPast /\ UpdateEntity)
    \/ Undo
    \/ Redo

SpecSelection == Init /\ [][NextSelection]_vars

(* Rendering of a relationship on an entity card and in the sidebar:    *)
(* displayLabel of a relationship listed under its from entity          *)
(* (rels.outgoing) and under its to entity (rels.incoming)              *)
displayLabelOutgoing(rel) ==
    IF rel.label = "belongs to" THEN "contains" ELSE rel.label

displayLabelIncoming(rel) ==
    IF rel.label = "contains" THEN "belongs to" ELSE rel.label

(* RightSidebar getEntityRelationships: the relationships leaving and    *)
(* entering an entity, in document order                                 *)
getEntityRelationships(relationships, entityId) ==
    [outgoing |-> SelectSeq(relationships, LAMBDA r : r.from = entityId),
     incoming |-> SelectSeq(relationships, LAMBDA r : r.to = entityId)]

(* the value the dropdown of a relationship shows, and the label its     *)
(* onChange hands to updateRelationshipLabel for the option picked       *)
dropdownValueOutgoing(rel) ==
    IF rel.label = "belongs to" THEN "contains" ELSE rel.label

actualValueOutgoing(rel, value) ==
    IF rel.label = "belongs to" /\ value = "belongs to" THEN "contains"
    ELSE IF rel.label = "belongs to" /\ value = "contains" THEN "belongs to"
    ELSE value

dropdownValueIncoming(rel) ==
    IF rel.label = "contains" THEN "belongs to" ELSE rel.label

actualValueIncoming(rel, value) ==
    IF rel.label = "contains" /\ value = "contains" THEN "belongs to"
    ELSE IF rel.label = "contains" /\ value = "belongs to" THEN "contains"
    ELSE value

(* The relationship panel of the selected entity: an option other than   *)
(* the one shown is picked in the dropdown of an outgoing or of an       *)
(* incoming relationship                                                 *)
OutgoingSelectChange ==
    /\ selectedEntity # Null
    /\ \E rel \in Range(getEntityRelationships(model.relationships,
                                               selectedEntity.id).outgoing),
          value \in Labels :
          /\ value # dropdownValueOutgoing(rel)
          /\ CommitArg(updateRelationshipLabel(World, rel.id,
                                               actualValueOutgoing(rel, value)),
                       "outgoingSelectChange", [relId |-> rel.id, value |-> value])
    /\ UNCHANGED <<now, pendingImport>>

IncomingSelectChange ==
    /\ selectedEntity # Null
    /\ \E rel \in Range(getEntityRelationships(model.relationships,
                                               selectedEntity.id).incoming),
          value \in Labels :
          /\ value # dropdownValueIncoming(rel)
          /\ CommitArg(updateRelationshipLabel(World, rel.id,
                                               actualValueIncoming(rel, value)),
                       "incomingSelectChange", [relId |-> rel.id, value |-> value])
    /\ UNCHANGED <<now, pendingImport>>

(* An imported model, an entity selected and the labels of its           *)
(* relationships changed in the sidebar                                  *)
NextPanel ==
    \/ (FirstOp /\ ImportFile)
    \/ (Room /\ HandleEntityClick)
    \/ (Room /\ OutgoingSelectChange)
    \/ (Room /\ IncomingSelectChange)
    \/ Undo
    \/ Redo

SpecPanel == Init /\ [][NextPanel]_vars

(* Every kind of document mutation as the first edit of an imported     *)
(* model of two entities with items, or of the empty model, and the     *)
(* relationship gesture on the model as imported                        *)
NextMutate ==
    \/ (FirstOp /\ ImportFile)
    \/ (Fresh /\ EntityRoom /\ AddEntity)
    \/ (Fresh /\ DeleteEntity)
    \/ (Fresh /\ UpdateEntity)
    \/ (Fresh /\ HandleDragEnd)
    \/ (Room /\ Untouched /\ HandleEntityClick)
    \/ (Room /\ Untouched /\ StartRelationshipFromEntity)
    \/ (Fresh /\ UpdateRelationshipLabel)
    \/ (Fresh /\ AddAttribute)
    \/ (Fresh /\ AddState)
    \/ (Fresh /\ AddAction)
    \/ (Fresh /\ RemoveAttribute)
    \/ (Fresh /\ RemoveState)
    \/ (Fresh /\ RemoveAction)
    \/ (Fresh /\ UpdateAttribute)
    \/ (Fresh /\ UpdateState)
    \/ (Fresh /\ UpdateAction)
    \/ Undo
    \/ Redo

SpecMutate == Init /\ [][NextMutate]_vars

(* The cards as rendered: [...model.entities].sort((a, b) => a.order -  *)
(* b.order), a stable sort: an entity stands after those of a smaller   *)
(* order and after the earlier ones of its own order                    *)
sortedByOrder(entities) ==
    LET rank(i) == Cardinality({j \in DOMAIN entities :
                       \/ entities[j].order < entities[i].order
                       \/ entities[j].order = entities[i].order /\ j < i}) + 1
    IN  [k \in DOMAIN entities |-> entities[CHOOSE i \in DOMAIN entities : rank(i) = k]]

(* Dragging after entities were added and deleted *)
NextReorder ==
    \/ (FirstOp /\ ImportFile)
    \/ (ReorderRoom /\ ThirdEntityRoom /\ AddEntity)
    \/ (ReorderRoom /\ DeleteEntity)
    \/ (ReorderRoom /\ HandleDragEnd)
    \/ Undo
    \/ Redo

SpecReorder == Init /\ [][NextReorder]_vars

(* the store functions that edit one entity *)
EntityEditOps ==
    {"updateEntity", "addAttribute", "addState", "addAction",
     "removeAttribute", "removeState", "removeAction",
     "updateAttribute", "updateState", "updateAction"}

(* C14: silent no-op on unknown ids: the entity functions called with an    *)
(* entity id that is not in the model, and updateRelationshipLabel called   *)
(* with a relationship id that is not, leave model, selection and history   *)
(* unchanged.                                                               *)
C14_UnknownIdNoOp ==
    [][(\/ lastOp' \in EntityEditOps /\ lastArg'.entityId \notin EntityIds
        \/ lastOp' = "updateRelationshipLabel" /\ lastArg'.relId \notin RelationshipIds)
          => UNCHANGED <<model, selectedEntity, pastStates, futureStates>>]_vars

(* updateEntity was called with an unknown id while an entity was selected  *)
(* and the history had states on both sides                                 *)
C14_Witness ==
    /\ lastOp = "updateEntity"
    /\ lastArg.entityId \notin EntityIds
    /\ model.entities # <<>>
    /\ selectedEntity # Null
    /\ pastStates # <<>>
    /\ futureStates # <<>>

(* C15: reorderEntities with an index outside 0 .. N-1 (also -1, the index  *)
(* of a drag target that is not found) is a no-op: the entities sequence,   *)
(* with every order value and its length, is unchanged.                     *)
C15_ReorderOutOfRange ==
    [][(/\ lastOp' = "reorderEntities"
        /\ \/ lastArg'.oldIndex \notin 0 .. (Len(model.entities) - 1)
           \/ lastArg'.newIndex \notin 0 .. (Len(model.entities) - 1))
          => model'.entities = model.entities]_vars

(* the sequence of an entity that a store function named op works on *)
ItemsOf(entities, entityId, op) ==
    LET entity == find(entities, entityId)
    IN  IF op \in {"addAttribute", "removeAttribute", "updateAttribute"} THEN entity.attributes
        ELSE IF op \in {"addState", "removeState", "updateState"} THEN entity.states
        ELSE entity.actions

OutOfRange(arr, index) == index < 0 \/ index >= Len(arr)

(* C16: updateAttribute, updateState and updateAction with an index outside *)
(* the current sequence (index < 0 or index >= length) are no-ops: the      *)
(* sequence keeps its length and contents.                                  *)
C16_UpdateOutOfRange ==
    [][(/\ lastOp' \in {"updateAttribute", "updateState", "updateAction"}
        /\ lastArg'.entityId \in EntityIds
        /\ OutOfRange(ItemsOf(model.entities, lastArg'.entityId, lastOp'), lastArg'.index))
          => ItemsOf(model'.entities, lastArg'.entityId, lastOp')
               = ItemsOf(model.entities, lastArg'.entityId, lastOp')]_vars

(* C17: removeAttribute, removeState and removeAction delete exactly the    *)
(* element at index and keep the others in order; with an index out of     *)
(* range they leave the sequence unchanged and add no history entry.        *)
C17_RemoveAtIndex ==
    [][(/\ lastOp' \in {"removeAttribute", "removeState", "removeAction"}
        /\ lastArg'.entityId \in EntityIds)
          => LET old == ItemsOf(model.entities, lastArg'.entityId, lastOp')
                 new == ItemsOf(model'.entities, lastArg'.entityId, lastOp')
                 index == lastArg'.index
             IN  IF OutOfRange(old, index)
                 THEN new = old /\ pastStates' = pastStates
                 ELSE /\ Len(new) = Len(old) - 1
                      /\ \A k \in DOMAIN new :
                            new[k] = IF k <= index THEN old[k] ELSE old[k + 1]]_vars

(* the gesture is Armed: the mode is active and an anchor is chosen *)
Armed == isCreatingRelationship /\ relationshipStart # Null

(* C18: self-click while Armed: when the clicked entity is the anchor, the  *)
(* click is ignored and the gesture stays Armed with the same anchor.       *)
C18_SelfClickStaysArmed ==
    [][(/\ lastOp' = "handleEntityClick"
        /\ Armed
        /\ lastArg'.entityId = relationshipStart.id)
          => /\ isCreatingRelationship'
             /\ relationshipStart' = relationshipStart]_vars

(* C19: first click of the gesture: with the mode active and no anchor      *)
(* chosen, a click on an entity makes it the anchor, leaves the mode active *)
(* and the document unchanged.                                              *)
C19_FirstClickArms ==
    [][(/\ lastOp' = "handleEntityClick"
        /\ isCreatingRelationship
        /\ relationshipStart = Null)
          => /\ isCreatingRelationship'
             /\ relationshipStart' \in Range(model.entities)
             /\ relationshipStart'.id = lastArg'.entityId
             /\ model' = model]_vars

(* C20: gesture completion: when Armed and an entity with another id is     *)
(* clicked, exactly one relationship from the anchor to that entity with    *)
(* the label "relates to" is appended, the document from before the click   *)
(* is recorded in the history, the gesture is Idle with the anchor cleared  *)
(* and the selection is as before.                                          *)
C20_GestureCompletion ==
    [][(/\ lastOp' = "handleEntityClick"
        /\ Armed
        /\ lastArg'.entityId # relationshipStart.id)
          => /\ \E t \in ClockReadings :
                   model'.relationships = Append(model.relationships,
                       [id |-> t, from |-> relationshipStart.id,
                        to |-> lastArg'.entityId, label |-> "relates to"])
             /\ model'.entities = model.entities
             /\ Len(pastStates') > Len(pastStates)
             /\ \E k \in DOMAIN pastStates' :
                   k > Len(pastStates) /\ pastStates'[k].model = model
             /\ futureStates' = <<>>
             /\ ~isCreatingRelationship'
             /\ relationshipStart' = Null
             /\ selectedEntity' = selectedEntity]_vars

(* a click on another entity completed an armed gesture while an entity     *)
(* was selected                                                             *)
C20_Witness ==
    /\ lastOp = "handleEntityClick"
    /\ Len(pastStates) >= 2
    /\ LET armed == pastStates[Len(pastStates) - 1]
       IN  /\ armed.isCreatingRelationship
           /\ armed.relationshipStart # Null
           /\ armed.relationshipStart.id # lastArg.entityId
           /\ armed.selectedEntity # Null
           /\ Len(model.relationships) = Len(armed.model.relationships) + 1
           /\ model.relationships[Len(model.relationships)].to = lastArg.entityId
    /\ selectedEntity # Null
    /\ ~isCreatingRelationship

(* C21: cancel: from any active gesture state cancelRelationship returns    *)
(* to Idle and discards the anchor, does not change the document and adds   *)
(* no history entry: as many undo steps are available after as before.      *)
C21_CancelNoHistory ==
    [][(lastOp' = "cancelRelationship" /\ isCreatingRelationship)
          => /\ ~isCreatingRelationship'
             /\ relationshipStart' = Null
             /\ model' = model
             /\ Len(pastStates') = Len(pastStates)]_vars

(* C22: the gesture state is not subject to undo: undo and redo never       *)
(* change isCreatingRelationship or relationshipStart.                      *)
C22_GestureNotUndone ==
    [][lastOp' \in {"undo", "redo"}
          => UNCHANGED <<isCreatingRelationship, relationshipStart>>]_vars

(* C23: every history-restoring operation clears the selection: after an    *)
(* undo or redo that restores a snapshot, and after a new document or an    *)
(* import, the selection is none.                                           *)
C23_RestoreClearsSelection ==
    [][(\/ lastOp' \in {"undo", "redo"} /\ pastStates' # pastStates
        \/ lastOp' \in {"newModel", "importDone"})
          => selectedEntity' = Null]_vars

(* C24: selection validity: in every reachable state the selection is none  *)
(* or refers to an entity whose id is present in the document.              *)
C24_SelectionValid ==
    selectedEntity # Null => selectedEntity.id \in EntityIds

(* the selected entity was deleted and the deletion undone: the entity and  *)
(* its selection are back together                                          *)
C24_Witness ==
    /\ lastOp = "undo"
    /\ selectedEntity # Null
    /\ futureStates # <<>>
    /\ LET undone == futureStates[Len(futureStates)]
       IN  /\ undone.selectedEntity = Null
           /\ \A e \in Range(undone.model.entities) : e.id # selectedEntity.id

(* C25: perspective-dependent display: a relationship labelled "contains"   *)
(* or "belongs to" is displayed with the paired label from its to endpoint  *)
(* and with its literal label from its from endpoint; "relates to" is       *)
(* displayed unchanged from both endpoints.                                 *)
C25_PerspectiveDisplay ==
    \A rel \in Range(model.relationships) :
        /\ displayLabelOutgoing(rel) = rel.label
        /\ displayLabelIncoming(rel) =
               IF rel.label \in {"contains", "belongs to"} THEN Inverse(rel.label)
               ELSE rel.label

(* the store functions and handlers that mutate the document *)
DocumentOps ==
    EntityEditOps \cup
    {"addEntity", "deleteEntity", "reorderEntities", "handleEntityClick",
     "completeRelationship", "updateRelationshipLabel"}

(* C26: every successful mutation that changes the document is pushed into  *)
(* the history, so that an undo step exists for it: the state from before   *)
(* the mutation is a new entry of pastStates, and every entry above it      *)
(* already holds the changed document.                                      *)
C26_MutationRecorded ==
    [][(lastOp' \in DocumentOps /\ model' # model)
          => LET n == Len(pastStates')
             IN  \E k \in 1 .. n :
                    /\ k > Len(pastStates) \/ Len(pastStates) = Limit
                    /\ pastStates'[k] = StoreState
                    /\ \A j \in (k + 1) .. n : pastStates'[j].model = model']_vars

(* an entity of an imported model was dragged to the other position and    *)
(* the order from before the drag is the newest entry of the history       *)
C26_Witness ==
    /\ lastOp = "reorderEntities"
    /\ pastStates # <<>>
    /\ model.relationships # <<>>
    /\ pastStates[Len(pastStates)].model # model
    /\ pastStates[Len(pastStates)].model.relationships = model.relationships

(* the snapshots of the history in their order: the undo stack, the live   *)
(* state, the redo stack from its top down                                 *)
Timeline ==
    pastStates \o <<StoreState>> \o
    [k \in 1 .. Len(futureStates) |-> futureStates[Len(futureStates) + 1 - k]]

(* C27: history deduplication: a commit whose document deep-equals the      *)
(* snapshot on top of the history (updateEntity with the values the entity  *)
(* already has, a drag that ends where it started) adds no history entry,   *)
(* so no two consecutive snapshots hold deep-equal documents.               *)
C27_HistoryDeduplication ==
    /\ [][(lastOp' \notin {"undo", "redo"} /\ model' = model)
             => Len(pastStates') <= Len(pastStates)]_vars
    /\ [](\A k \in 1 .. (Len(Timeline) - 1) :
             Timeline[k].model # Timeline[k + 1].model)

(* the sequence with the element at position from (counted from 0) moved   *)
(* to position to                                                          *)
Moved(seq, from, to) ==
    LET rest == SubSeq(seq, 1, from) \o SubSeq(seq, from + 2, Len(seq))
    IN  SubSeq(rest, 1, to) \o <<seq[from + 1]>> \o SubSeq(rest, to + 1, Len(rest))

(* C28: reorderEntities(oldIndex, newIndex) moves the entity that stands at *)
(* position oldIndex of the display ordering (the entities sorted by order) *)
(* to position newIndex of that ordering and then numbers the orders 0..N-1 *)
(* along the new sequence, in every reachable document.                     *)
C28_ReorderDisplayOrdering ==
    [][(/\ lastOp' = "reorderEntities"
        /\ lastArg'.oldIndex \in 0 .. (Len(model.entities) - 1)
        /\ lastArg'.newIndex \in 0 .. (Len(model.entities) - 1))
          => LET expected == Moved(sortedByOrder(model.entities),
                                   lastArg'.oldIndex, lastArg'.newIndex)
             IN  sortedByOrder(model'.entities)
                   = [k \in DOMAIN expected |-> [expected[k] EXCEPT !.order = k - 1]]]_vars

(* C29: import under interleaving: whatever is done between the pick of a   *)
(* file and the end of its read, a document that is non-empty when the      *)
(* imported one replaces it is replaced only after the user confirmed.      *)
C29_ImportInterleaving ==
    [][(lastOp' = "importDone" /\ NonEmpty(model))
          => lastArg'.answer = "yes"]_vars

(* C30: startRelationshipFromEntity(entity) is equivalent to entering the   *)
(* relationship-creation mode and then clicking that entity: from any Idle  *)
(* state both end in the same state, Armed with the entity as anchor and    *)
(* the document unchanged.                                                  *)
C30_StartEquivalence ==
    (~isCreatingRelationship /\ relationshipStart = Null)
        => \A entity \in Range(model.entities) :
              LET direct == startRelationshipFromEntity(World, entity).st
                  byClick == handleEntityClick(
                                 setIsCreatingRelationship(World, TRUE), entity, now).st
              IN  /\ direct = byClick
                  /\ direct.isCreatingRelationship
                  /\ direct.relationshipStart = entity
                  /\ direct.model = model

(* C31: undo with no earlier snapshot (the initial state, right after a new *)
(* document or an import) is a no-op: document, selection and the contents  *)
(* of the history are unchanged, and a redo after it is a no-op as well     *)
(* when, as in those cases, nothing was undone before.                      *)
C31_UndoAtBottom ==
    [][(lastOp' = "undo" /\ pastStates = <<>>)
          => /\ UNCHANGED <<model, selectedEntity, isCreatingRelationship,
                            relationshipStart, pastStates, futureStates>>
             /\ futureStates = <<>> => redo(World') = World']_vars

(* undo was pressed right after an import: the imported document stays and *)
(* both stacks are empty                                                   *)
C31_Witness ==
    /\ lastOp = "undo"
    /\ pastStates = <<>>
    /\ futureStates = <<>>
    /\ NonEmpty(model)

(* C32: redo truncation: a mutation committed after undo discards every     *)
(* snapshot that was undone, so that redo is a no-op after it and restores  *)
(* nothing undone before; redo with nothing to redo leaves the state        *)
(* unchanged.                                                               *)
C32_RedoTruncation ==
    /\ [][(lastOp' \in DocumentOps /\ model' # model)
             => /\ futureStates' = <<>>
                /\ redo(World') = World']_vars
    /\ [][(lastOp' = "redo" /\ futureStates = <<>>)
             => UNCHANGED <<model, selectedEntity, isCreatingRelationship,
                            relationshipStart, pastStates, futureStates>>]_vars

(* redo was pressed after a mutation and found nothing to restore *)
C32_Witness ==
    /\ lastOp = "redo"
    /\ futureStates = <<>>
    /\ pastStates # <<>>
    /\ pastStates[Len(pastStates)].model # model

----------------------------------------------------------------------------
(* C33: a completed reorder drag records to the history once, at its end:  *)
(* the drag adds at most one entry; when it changes the document it adds   *)
(* exactly one, the state from before the drag, and a single undo() gives  *)
(* back the document, and so the ordering, from before the drag            *)
C33_DragRecordsOnce ==
    [][lastOp' = "reorderEntities"
          => /\ pastStates' \in {pastStates, pastStates \o <<StoreState>>}
             /\ model' # model
                  => /\ pastStates' = pastStates \o <<StoreState>>
                     /\ undo(World').st.model = model
                     /\ sortedByOrder(undo(World').st.model.entities)
                           = sortedByOrder(model.entities)
                     /\ undo(World').past = pastStates]_vars

(* a drag has just exchanged two entities and its entry is on the stack *)
C33_Witness ==
    /\ lastOp = "reorderEntities"
    /\ pastStates # <<>>
    /\ Len(model.entities) >= 2
    /\ pastStates[Len(pastStates)].model.entities # model.entities
    /\ sortedByOrder(pastStates[Len(pastStates)].model.entities)
          # sortedByOrder(model.entities)
    /\ {e.id : e \in Range(model.entities)}
          = {e.id : e \in Range(pastStates[Len(pastStates)].model.entities)}

(* C34: completing a relationship gesture is one undo step: after the      *)
(* click on an entity other than the anchor, a single undo() gives the     *)
(* document without the new relationship                                   *)
C34_CompletionOneUndoStep ==
    [][(/\ lastOp' = "handleEntityClick"
        /\ Armed
        /\ lastArg'.entityId # relationshipStart.id)
          => /\ undo(World').st.model = model
             /\ undo(World').st.model.relationships = model.relationships]_vars

(* C35: selected-copy consistency: whenever an entity is selected, the     *)
(* selectedEntity copy equals the document's entity of the same id in      *)
(* name, order, attributes, states and actions                             *)
C35_SelectedCopyConsistent ==
    selectedEntity # Null
        => /\ find(model.entities, selectedEntity.id) # Null
           /\ find(model.entities, selectedEntity.id) = selectedEntity

(* C36: anchor validity: in every reachable state the gesture anchor       *)
(* relationshipStart is none or an entity whose id is in the document      *)
C36_AnchorValid ==
    relationshipStart # Null => relationshipStart.id \in EntityIds

(* C37: gesture-state well-formedness: in every reachable state an anchor  *)
(* exists only while relationship-creation mode is active:                 *)
(* isCreatingRelationship = FALSE implies relationshipStart = null         *)
C37_GestureWellFormed ==
    ~isCreatingRelationship => relationshipStart = Null

(* C38: dropdown inverse mapping: for a relationship in the selected       *)
(* entity's panel, outgoing or incoming and with any label, and a label L  *)
(* picked in its dropdown, the label displayed for that relationship from  *)
(* the selected entity's viewpoint after the update is L                   *)
C38_DropdownInverse ==
    [][lastOp' \in {"outgoingSelectChange", "incomingSelectChange"}
          => LET rel == find(model'.relationships, lastArg'.relId)
                 rels == getEntityRelationships(model'.relationships, selectedEntity'.id)
             IN  /\ rel \in Range(rels.outgoing) \cup Range(rels.incoming)
                 /\ rel \in Range(rels.outgoing)
                       => displayLabelOutgoing(rel) = lastArg'.value
                 /\ rel \in Range(rels.incoming)
                       => displayLabelIncoming(rel) = lastArg'.value]_vars

(* C39: undo steps correspond to document changes: every undo() that has   *)
(* a state to go back to restores a document different from the current    *)
(* one; selecting an entity, entering relationship mode and cancelling a   *)
(* gesture add nothing to the undo stack                                   *)
C39_UndoStepsAreDocumentChanges ==
    /\ [][(lastOp' = "undo" /\ pastStates # <<>>) => model' # model]_vars
    /\ [][(/\ lastOp' \in {"handleEntityClick", "startRelationshipFromEntity",
                           "cancelRelationship"}
           /\ model' = model)
             => pastStates' = pastStates]_vars

(* C40: frame of single-entity edits: updateEntity and the add, remove and *)
(* update functions for attributes, states and actions, called on entity   *)
(* e, leave every other entity, the relationships, the sequence order of   *)
(* the entities, the id and order of e and the gesture state unchanged,    *)
(* and change the selection only when e is the selected entity             *)
C40_SingleEntityFrame ==
    [][lastOp' \in EntityEditOps
          => LET e == lastArg'.entityId
             IN  /\ Len(model'.entities) = Len(model.entities)
                 /\ \A i \in DOMAIN model.entities :
                       /\ model'.entities[i].id = model.entities[i].id
                       /\ model'.entities[i].order = model.entities[i].order
                       /\ model.entities[i].id # e
                             => model'.entities[i] = model.entities[i]
                 /\ model'.relationships = model.relationships
                 /\ UNCHANGED <<isCreatingRelationship, relationshipStart>>
                 /\ selectedEntity' # selectedEntity
                       => selectedEntity # Null /\ selectedEntity.id = e]_vars

====
